---- MODULE Spec2Model ----
(***************************************************************************)
(* A model of main.py of hkdrama-rss-m3u: the RSS-to-M3U resolver.         *)
(*                                                                         *)
(* A URL is a Python str, modelled as a tuple of one-character strings, so *)
(* that the three regular expressions and the substring tests of the       *)
(* program are computed character by character.  An optional value (a      *)
(* dict .get() that may give None) is a tuple of length 0 (None) or 1.     *)
(***************************************************************************)
EXTENDS Naturals, Sequences, FiniteSets, TLC

VARIABLES pc, arg, ret, gi, fp, ei, ci, out, all_items, file, sleeps, last, parsed

vars == <<pc, arg, ret, gi, fp, ei, ci, out, all_items, file, sleeps, last, parsed>>

(***************************************************************************)
(* Bounds of the model.                                                    *)
(***************************************************************************)
MaxEnc == 2
MaxLinks == 1
MaxUrls == 3
MaxDocEntries == 2
MaxHints == 2
MaxEntries == 2

SeqsUpTo(S, n) == UNION {[1..k -> S] : k \in 0..n}

(***************************************************************************)
(* Optional values and Python truthiness of an optional str.               *)
(***************************************************************************)
None == <<>>

Some(v) == <<v>>

Truthy(o) == o # None /\ o[1] # <<>>

(***************************************************************************)
(* Characters.  str.lower() and re.I on the ASCII letters.                 *)
(***************************************************************************)
UpperCase == <<"A","B","C","D","E","F","G","H","I","J","K","L","M",
               "N","O","P","Q","R","S","T","U","V","W","X","Y","Z">>

LowerCase == <<"a","b","c","d","e","f","g","h","i","j","k","l","m",
               "n","o","p","q","r","s","t","u","v","w","x","y","z">>

Digits == {"0","1","2","3","4","5","6","7","8","9"}

NL == "\n"

WhiteSpace == {" ", "\t", "\n", "\r"}

lower(c) == IF \E i \in 1..26 : UpperCase[i] = c
            THEN LowerCase[CHOOSE i \in 1..26 : UpperCase[i] = c]
            ELSE c

\* s has the literal lit at position i, letters compared case-insensitively
\* (lit is given in lower case)
MatchAtI(s, i, lit) ==
    /\ i >= 1
    /\ i + Len(lit) - 1 <= Len(s)
    /\ \A k \in 1..Len(lit) : lower(s[i + k - 1]) = lit[k]

\* s has the literal lit at position i, compared exactly
MatchAt(s, i, lit) ==
    /\ i >= 1
    /\ i + Len(lit) - 1 <= Len(s)
    /\ \A k \in 1..Len(lit) : s[i + k - 1] = lit[k]

\* Python's "lit in s"
Contains(s, lit) == \E i \in 1..(Len(s) + 1) : MatchAt(s, i, lit)

\* Python's "lit in s.lower()"
ContainsLower(s, lit) == \E i \in 1..(Len(s) + 1) : MatchAtI(s, i, lit)

\* Python's s.lower().endswith(lit)
EndsWithLower(s, lit) == MatchAtI(s, Len(s) - Len(lit) + 1, lit)

\* the regular expression's $ : the end of s, or just before a final newline
AtEnd(s, k) == k = Len(s) + 1 \/ (k = Len(s) /\ s[k] = NL)

DotM3u8 == <<".","m","3","u","8">>

MediaExts == { <<"m","3","u","8">>, <<"m","p","4">>, <<"m","o","v">>,
               <<"m","p","d">>, <<"t","s">> }

\* MEDIA_EXT.search(s) is not None, for r"\.(m3u8|mp4|mov|mpd|ts)(\?.*)?$", re.I
MEDIA_EXT(s) ==
    \E i \in 1..Len(s) : \E ext \in MediaExts :
       /\ s[i] = "."
       /\ MatchAtI(s, i + 1, ext)
       /\ LET j == i + 1 + Len(ext)
          IN  \/ AtEnd(s, j)
              \/ /\ j <= Len(s)
                 /\ s[j] = "?"
                 /\ \E k \in (j + 1)..(Len(s) + 1) :
                       /\ \A m \in (j + 1)..(k - 1) : s[m] # NL
                       /\ AtEnd(s, k)

EpisodesEq == <<"e","p","i","s","o","d","e","s","=">>

\* EPISODE_URL.search(s) is not None, for r"[?&]episodes=\d+", re.I
EPISODE_URL(s) ==
    \E i \in 1..Len(s) :
       /\ s[i] \in {"?", "&"}
       /\ MatchAtI(s, i + 1, EpisodesEq)
       /\ i + 10 <= Len(s)
       /\ s[i + 10] \in Digits

HintHost == <<"/","/","v",".","a","l","l","r","s","s",".","s","e","/","v","/">>

\* INNER_XML_HINT matches the whole of s, for
\* r"https?://v\.allrss\.se/v/[^\"'<>\s]+", re.I
INNER_XML_HINT(s) ==
    \E p \in { <<"h","t","t","p",":">>, <<"h","t","t","p","s",":">> } :
       /\ MatchAtI(s, 1, p \o HintHost)
       /\ Len(s) > Len(p) + Len(HintHost)
       /\ \A k \in (Len(p) + Len(HintHost) + 1)..Len(s) :
             s[k] \notin ({"\"", "'", "<", ">"} \cup WhiteSpace)

(***************************************************************************)
(* choose_best_media                                                       *)
(***************************************************************************)
\* only the first half of the test of line 33
IsHlsSuffix(u) == EndsWithLower(u, DotM3u8)

IsHls(u) == EndsWithLower(u, DotM3u8) \/ ContainsLower(u, DotM3u8)

choose_best_media(urls) ==
    LET hls == SelectSeq(urls, IsHls)
    IN  IF hls # <<>> THEN Some(hls[1])
        ELSE IF urls # <<>> THEN Some(urls[1])
        ELSE None

(***************************************************************************)
(* extract_enclosure_urls                                                  *)
(***************************************************************************)
\* the dedupe loop: keep the first occurrence of every element
Dedupe(s) ==
    LET F[i \in 0..Len(s)] ==
          IF i = 0 THEN <<>>
          ELSE IF \E k \in 1..(i - 1) : s[k] = s[i] THEN F[i - 1]
               ELSE Append(F[i - 1], s[i])
    IN  F[Len(s)]

\* the hrefs appended by the loop over entry.enclosures
EnclosureHrefs(entry) ==
    LET encs == entry.enclosures
        F[i \in 0..Len(encs)] ==
          IF i = 0 THEN <<>>
          ELSE IF Truthy(encs[i].href) THEN Append(F[i - 1], encs[i].href[1])
               ELSE F[i - 1]
    IN  F[Len(encs)]

LinkQualifies(l) ==
    Truthy(l.href) /\ (l.rel = Some("enclosure") \/ MEDIA_EXT(l.href[1]))

\* the hrefs appended by the loop over entry.links
LinkHrefs(entry) ==
    LET ls == entry.links
        F[i \in 0..Len(ls)] ==
          IF i = 0 THEN <<>>
          ELSE IF LinkQualifies(ls[i]) THEN Append(F[i - 1], ls[i].href[1])
               ELSE F[i - 1]
    IN  F[Len(ls)]

\* lines 43-47 without the "not out" test
WithLinkHrefsAlways(out0, entry) == out0 \o LinkHrefs(entry)

\* lines 43-47: the links are looked at only when there is no enclosure href
WithLinkHrefs(out0, entry) ==
    IF out0 = <<>> THEN out0 \o LinkHrefs(entry) ELSE out0

\* lines 49-50: the page link is used only when nothing was found
WithPageLink(out0, entry) ==
    IF out0 = <<>> /\ Truthy(entry.link) THEN Append(out0, entry.link[1]) ELSE out0

extract_enclosure_urls(entry) ==
    Dedupe(WithPageLink(
             WithLinkHrefs(IF entry.enclosures # <<>> THEN EnclosureHrefs(entry)
                           ELSE <<>>,
                           entry),
             entry))

(***************************************************************************)
(* ensure_xml_view and the network.                                        *)
(***************************************************************************)
FirstIndex(s, c) ==
    IF \E i \in 1..Len(s) : s[i] = c
    THEN CHOOSE i \in 1..Len(s) : s[i] = c /\ \A k \in 1..(i - 1) : s[k] # c
    ELSE 0

\* urlparse(url).query: what follows the first "?" of the part before "#"
Query(url) ==
    LET h == FirstIndex(url, "#")
        base == IF h = 0 THEN url ELSE SubSeq(url, 1, h - 1)
        q == FirstIndex(base, "?")
    IN  IF q = 0 THEN <<>> ELSE SubSeq(base, q + 1, Len(base))

XmlEq == <<"x","m","l","=">>

\* "xml" in parse_qs(query): a field named xml with a non-blank value
\* (parse_qs drops blank values; percent-escapes in names are not modelled)
HasXmlField(query) ==
    \E p \in 1..Len(query) :
       /\ p = 1 \/ query[p - 1] = "&"
       /\ MatchAt(query, p, XmlEq)
       /\ p + 4 <= Len(query)
       /\ query[p + 4] # "&"

ensure_xml_view(url) ==
    LET query == Query(url)
    IN  IF ~HasXmlField(query)
        THEN url \o (IF query # <<>> THEN <<"&">> ELSE <<"?">>) \o <<"x","m","l","=","1">>
        ELSE url

\* line 98: add xml=1 to an inner URL that has no "xml=" in it
InnerXmlView(u) ==
    IF Contains(u, XmlEq) THEN u
    ELSE u \o (IF Contains(u, <<"?">>) THEN <<"&">> ELSE <<"?">>) \o <<"x","m","l","=","1">>

\* What one fetch_text + parse_feed gives: a failure (fetch_text raises), or
\* the entries feedparser recovers from the text together with the matches
\* INNER_XML_HINT.findall finds in the same text, in match order.
FetchFailed == [ok |-> FALSE, entries |-> <<>>, hints |-> <<>>]

Fetched(es, hs) == [ok |-> TRUE, entries |-> es, hints |-> hs]

\* the log lines of the program, with the fields their f-strings print
Warn(what, u) == [level |-> "WARN", msg |-> what, url |-> u]

(***************************************************************************)
(* resolve_episode_to_media(url), given what the network answers: xml is   *)
(* the answer for the XML view, inner[i] the answer for the i-th inner URL.*)
(* The result records, besides the returned list (ret) or the exception    *)
(* (raised), the URLs fetched in order, the lines printed, the accumulated *)
(* list before line 110 (media) and whether the text scan of line 94 ran.  *)
(***************************************************************************)
\* the loops of lines 89-91 and 103-105: extend by every entry's URLs
ExtractAll(entries) ==
    LET F[i \in 0..Len(entries)] ==
          IF i = 0 THEN <<>>
          ELSE F[i - 1] \o extract_enclosure_urls(entries[i])
    IN  F[Len(entries)]

IsPlayable(m) == MEDIA_EXT(m) \/ ContainsLower(m, DotM3u8)

\* the loop of lines 99-107 as it would be with the try around the whole
\* loop: the first failure ends it
InnerLoopStopsAtFailure(media, us, inner) ==
    LET F[i \in 0..Len(us)] ==
          IF i = 0 THEN [media |-> media, log |-> <<>>, fetched |-> <<>>,
                         failed |-> <<>>]
          ELSE IF F[i - 1].failed # <<>> THEN F[i - 1]
          ELSE IF inner[i].ok
               THEN [F[i - 1] EXCEPT !.media = @ \o ExtractAll(inner[i].entries),
                                     !.fetched = Append(@, us[i])]
               ELSE [F[i - 1] EXCEPT !.log = Append(@, Warn("inner xml fetch failed", us[i])),
                                     !.fetched = Append(@, us[i]),
                                     !.failed = Append(@, us[i])]
    IN  F[Len(us)]

\* the loop of lines 99-107 over the inner URLs us, from the list media:
\* every inner URL is fetched; one that fails is logged and skipped.
\* failed lists the URLs whose fetch raised.
InnerLoop(media, us, inner) ==
    LET F[i \in 0..Len(us)] ==
          IF i = 0 THEN [media |-> media, log |-> <<>>, fetched |-> <<>>,
                         failed |-> <<>>]
          ELSE IF inner[i].ok
               THEN [F[i - 1] EXCEPT !.media = @ \o ExtractAll(inner[i].entries),
                                     !.fetched = Append(@, us[i])]
               ELSE [F[i - 1] EXCEPT !.log = Append(@, Warn("inner xml fetch failed", us[i])),
                                     !.fetched = Append(@, us[i]),
                                     !.failed = Append(@, us[i])]
    IN  F[Len(us)]

\* lines 110-113 without the fallback to the full list
PlayableOnly(media) == SelectSeq(Dedupe(media), IsPlayable)

\* lines 110-113: dedupe, then the playable-looking ones, or all of them
PlayableOrAll(media) ==
    LET deduped == Dedupe(media)
        playable == SelectSeq(deduped, IsPlayable)
    IN  IF playable # <<>> THEN playable ELSE deduped

\* lines 110-113 on what the loops accumulated
Resolved(xml_url, loop, scan) ==
    [raised |-> FALSE,
     ret |-> PlayableOrAll(loop.media),
     fetched |-> <<xml_url>> \o loop.fetched,
     log |-> loop.log,
     media |-> loop.media,
     scanned |-> scan,
     failed |-> loop.failed]

\* lines 94-107: the text scan, only when the entries gave nothing
ScanIfEmpty(media0, xml, inner) ==
    IF media0 = <<>>
    THEN InnerLoop(media0,
                   [i \in 1..Len(xml.hints) |-> InnerXmlView(xml.hints[i])],
                   inner)
    ELSE [media |-> media0, log |-> <<>>, fetched |-> <<>>, failed |-> <<>>]

\* lines 85-113: after the XML view was fetched
AfterFetch(xml_url, media0, xml, inner) ==
    Resolved(xml_url, ScanIfEmpty(media0, xml, inner), media0 = <<>>)

\* lines 83-113: the path through the network
ResolveViaNetwork(url, xml, inner) ==
    IF ~xml.ok
    THEN [raised |-> TRUE, ret |-> <<>>, fetched |-> <<ensure_xml_view(url)>>,
          log |-> <<>>, media |-> <<>>, scanned |-> FALSE,
          failed |-> <<ensure_xml_view(url)>>]
    ELSE AfterFetch(ensure_xml_view(url), ExtractAll(xml.entries), xml, inner)

\* the resolver without the early return of lines 79-80
resolve_without_shortcut(url, xml, inner) == ResolveViaNetwork(url, xml, inner)

resolve_episode_to_media(url, xml, inner) ==
    IF MEDIA_EXT(url)
    THEN [raised |-> FALSE, ret |-> <<url>>, fetched |-> <<>>, log |-> <<>>,
          media |-> <<>>, scanned |-> FALSE, failed |-> <<>>]
    ELSE ResolveViaNetwork(url, xml, inner)

(***************************************************************************)
(* The URLs and feed entries the inputs are drawn from.                    *)
(***************************************************************************)
UrlTs == <<"a",".","t","s">>

UrlM3u8 == <<"b",".","m","3","u","8">>

UrlUpperQuery == <<"C",".","M","3","U","8","?","k">>

UrlHlsDir == <<"d",".","m","3","u","8","/","x">>

UrlPage == <<"p">>

UrlPageXml == <<"w","?","x","m","l","=","1">>

UrlEpisode == <<"e","?","e","p","i","s","o","d","e","s","=","1">>

UrlEpisodeTs == <<"f","?","e","p","i","s","o","d","e","s","=","2","&","g","=",".","t","s">>

HintPrefix == <<"h","t","t","p",":">> \o HintHost

InnerUrls == { u \in { HintPrefix \o <<"i">>,
                       HintPrefix \o <<"j","?","x","m","l","=","1">> } :
               INNER_XML_HINT(u) }

Entry(t, encs, ls, l) == [title |-> t, enclosures |-> encs, links |-> ls, link |-> l]

Enclosure(u) == [href |-> Some(u)]

(***************************************************************************)
(* Calls of the three pure functions on inputs drawn from bounded sets:    *)
(* arg is the argument, ret the value returned.                            *)
(***************************************************************************)
Idle == /\ gi = 0 /\ fp = <<>> /\ ei = 0 /\ ci = 0 /\ out = <<>>
        /\ all_items = <<>> /\ file = <<>> /\ sleeps = 0 /\ last = <<>>
        /\ parsed = 0

ExtractHrefs == {None, Some(<<>>), Some(UrlTs), Some(UrlPage)}

ExtractLinks == [href : {None, Some(UrlM3u8), Some(UrlPage), Some(UrlTs)},
                 rel : {None, Some("enclosure"), Some("alternate")}]

InitExtract ==
    /\ pc = "call"
    /\ \E encs \in SeqsUpTo([href : ExtractHrefs], MaxEnc),
          ls \in SeqsUpTo(ExtractLinks, MaxLinks),
          l \in ExtractHrefs :
          arg = Entry(None, encs, ls, l)
    /\ ret = <<>>
    /\ Idle

CallExtract ==
    /\ pc = "call"
    /\ ret' = extract_enclosure_urls(arg)
    /\ pc' = "return"
    /\ UNCHANGED <<arg, gi, fp, ei, ci, out, all_items, file, sleeps, last, parsed>>

SpecExtract == InitExtract /\ [][CallExtract]_vars

ChooseUrls == {UrlTs, UrlM3u8, UrlUpperQuery, UrlHlsDir, UrlPage}

InitChoose == pc = "call" /\ arg \in SeqsUpTo(ChooseUrls, MaxUrls) /\ ret = <<>> /\ Idle

CallChoose ==
    /\ pc = "call"
    /\ ret' = choose_best_media(arg)
    /\ pc' = "return"
    /\ UNCHANGED <<arg, gi, fp, ei, ci, out, all_items, file, sleeps, last, parsed>>

SpecChoose == InitChoose /\ [][CallChoose]_vars

Range(s) == {s[i] : i \in 1..Len(s)}

NoDuplicates(s) == \A i, j \in 1..Len(s) : s[i] = s[j] => i = j

\* the position of the first occurrence of x in s
FirstPos(s, x) == CHOOSE i \in 1..Len(s) : s[i] = x /\ \A k \in 1..(i - 1) : s[k] # x

\* r lists members of s, each once, in the order of their first occurrence in s
FirstOccurrenceOrder(r, s) ==
    /\ NoDuplicates(r)
    /\ Range(r) \subseteq Range(s)
    /\ \A i, j \in 1..Len(r) : i < j => FirstPos(s, r[i]) < FirstPos(s, r[j])

\* C5: choose_best_media returns the first URL whose lower-case form contains
\* ".m3u8" if there is one, wherever it stands; else the first element; else
\* (empty list) nothing.  What it returns is a member of the list.
C5_ChooseBest ==
    pc = "return" =>
       LET hls == {i \in 1..Len(arg) : ContainsLower(arg[i], DotM3u8)}
       IN  /\ hls # {} => ret = Some(arg[CHOOSE i \in hls : \A k \in hls : i <= k])
           /\ hls = {} /\ arg # <<>> => ret = Some(arg[1])
           /\ arg = <<>> => ret = None
           /\ ret # None => ret[1] \in Range(arg)

\* an HLS URL that is not first, and is not a media-extension match, is chosen
C5_Witness ==
    /\ pc = "return" /\ Len(arg) >= 2
    /\ ~ContainsLower(arg[1], DotM3u8)
    /\ ret = Some(UrlHlsDir)

\* C2: extract_enclosure_urls returns the first non-empty tier only (the
\* enclosure hrefs, else the qualifying link hrefs, else the page link),
\* without duplicates, in first-occurrence order, and returns the empty list
\* exactly when the three tiers are empty.
Tier1(e) == [i \in 1..Len(e.enclosures) |-> e.enclosures[i].href]

Tier2(e) == [i \in 1..Len(e.links) |->
               IF e.links[i].rel = Some("enclosure") \/
                  (Truthy(e.links[i].href) /\ MEDIA_EXT(e.links[i].href[1]))
               THEN e.links[i].href ELSE None]

Tier3(e) == <<e.link>>

\* r is exactly the non-empty hrefs of the tier t, each once, in document order
IsTier(r, t) ==
    /\ NoDuplicates(r)
    /\ Range(r) = {o[1] : o \in {x \in Range(t) : Truthy(x)}}
    /\ \A i, j \in 1..Len(r) : i < j =>
          FirstPos(t, Some(r[i])) < FirstPos(t, Some(r[j]))

TierEmpty(t) == \A i \in 1..Len(t) : ~Truthy(t[i])

C2_ExtractTiers ==
    pc = "return" =>
       /\ ~TierEmpty(Tier1(arg)) => IsTier(ret, Tier1(arg))
       /\ TierEmpty(Tier1(arg)) /\ ~TierEmpty(Tier2(arg)) => IsTier(ret, Tier2(arg))
       /\ TierEmpty(Tier1(arg)) /\ TierEmpty(Tier2(arg)) => IsTier(ret, Tier3(arg))
       /\ ret = <<>> <=>
            TierEmpty(Tier1(arg)) /\ TierEmpty(Tier2(arg)) /\ TierEmpty(Tier3(arg))

\* an entry whose enclosures have no usable href, with a qualifying link and
\* a page link: the links tier is returned, the page link is not
C2_Witness ==
    /\ pc = "return"
    /\ arg.enclosures # <<>> /\ TierEmpty(Tier1(arg))
    /\ Truthy(arg.link)
    /\ ret # <<>> /\ arg.link[1] \notin Range(ret)

(***************************************************************************)
(* One call of resolve_episode_to_media: arg is the URL together with what *)
(* the network will answer, ret the outcome of the call.                   *)
(***************************************************************************)
EntNone == Entry(None, <<>>, <<>>, None)

EntEncM3u8 == Entry(None, <<Enclosure(UrlM3u8)>>, <<>>, Some(UrlPage))

EntEncPage == Entry(None, <<Enclosure(UrlPage)>>, <<>>, None)

EntEncHlsDir == Entry(None, <<Enclosure(UrlHlsDir)>>, <<>>, None)

EntLinkOnly == Entry(None, <<>>, <<>>, Some(UrlPageXml))

XmlEntries == {EntNone, EntEncM3u8, EntEncPage, EntEncHlsDir, EntLinkOnly}

InnerAnswers == { FetchFailed, Fetched(<<EntEncM3u8>>, <<>>), Fetched(<<EntEncPage>>, <<>>) }

ResolveUrls == {UrlTs, UrlUpperQuery, UrlEpisodeTs, UrlPage, UrlPageXml, UrlEpisode}

InitResolve ==
    /\ pc = "call"
    /\ \E u \in ResolveUrls, es \in SeqsUpTo(XmlEntries, MaxDocEntries),
          hs \in SeqsUpTo(InnerUrls, MaxHints), ok \in BOOLEAN :
          \E a \in [1..Len(hs) -> InnerAnswers] :
             arg = [url |-> u,
                    xml |-> IF ok THEN Fetched(es, hs) ELSE FetchFailed,
                    inner |-> IF ok THEN a ELSE <<>>]
    /\ ret = <<>>
    /\ Idle

CallResolve ==
    /\ pc = "call"
    /\ ret' = resolve_episode_to_media(arg.url, arg.xml, arg.inner)
    /\ pc' = "return"
    /\ UNCHANGED <<arg, gi, fp, ei, ci, out, all_items, file, sleeps, last, parsed>>

SpecResolve == InitResolve /\ [][CallResolve]_vars

\* C3: for a URL that matches the media-extension pattern the resolver
\* returns exactly [url] and fetches nothing.
C3_MediaNoFetch ==
    pc = "return" /\ MEDIA_EXT(arg.url) =>
       ~ret.raised /\ ret.ret = <<arg.url>> /\ ret.fetched = <<>>

\* an episode pointer that also ends in a media extension, with a network
\* that would have answered, is returned as it is
C3_Witness ==
    /\ pc = "return" /\ arg.url = UrlEpisodeTs /\ arg.xml.ok
    /\ ret.ret = <<UrlEpisodeTs>> /\ ret.fetched = <<>>

\* C4: on the network path the result is the accumulated candidates, each
\* once in first-occurrence order, restricted to the playable-looking ones
\* if there is any and unrestricted otherwise: it is empty only if nothing
\* was accumulated and never mixes playable-looking with other URLs.
C4_PlayableOrAll ==
    pc = "return" /\ ~MEDIA_EXT(arg.url) /\ ~ret.raised =>
       LET good == {m \in Range(ret.media) : IsPlayable(m)}
       IN  /\ FirstOccurrenceOrder(ret.ret, ret.media)
           /\ Range(ret.ret) = (IF good # {} THEN good ELSE Range(ret.media))
           /\ ret.ret = <<>> <=> ret.media = <<>>
           /\ (\A m \in Range(ret.ret) : IsPlayable(m)) \/
              (\A m \in Range(ret.ret) : ~IsPlayable(m))

\* playable and non-playable candidates were accumulated, one of the playable
\* ones only by its ".m3u8" substring, and the non-playable ones were dropped
C4_Witness ==
    /\ pc = "return" /\ ~ret.raised /\ ret.fetched # <<>>
    /\ \E m \in Range(ret.media) : ~IsPlayable(m)
    /\ \E m \in Range(ret.media) : IsPlayable(m) /\ ~MEDIA_EXT(m)
    /\ Len(ret.ret) < Cardinality(Range(ret.media))

\* C8: whenever the entries of the XML view yield no enclosure, the resolver
\* scans the fetched text and fetches every v.allrss.se/v/ URL it finds, also
\* when those entries carry only a page link.
NoEnclosure(e) == TierEmpty(Tier1(e)) /\ TierEmpty(Tier2(e))

C8_FallbackWhenNoEnclosure ==
    pc = "return" /\ ~MEDIA_EXT(arg.url) /\ arg.xml.ok
       /\ (\A i \in 1..Len(arg.xml.entries) : NoEnclosure(arg.xml.entries[i])) =>
       Tail(ret.fetched) =
          [i \in 1..Len(arg.xml.hints) |-> InnerXmlView(arg.xml.hints[i])]

\* C9: in the text-scanning fallback a failure on one inner URL does not end
\* the resolution: every inner URL is fetched, in match order; what the
\* inner URLs that answered yield is in the accumulated list; each failure
\* is logged with its URL; and the call returns.
C9_InnerFailureSkipped ==
    pc = "return" /\ ret.scanned =>
       LET hs == arg.xml.hints
           bad == {i \in 1..Len(hs) : ~arg.inner[i].ok}
       IN  /\ ~ret.raised
           /\ Tail(ret.fetched) = [i \in 1..Len(hs) |-> InnerXmlView(hs[i])]
           /\ \A i \in (1..Len(hs)) \ bad :
                 \A k \in 1..Len(arg.inner[i].entries) :
                    Range(extract_enclosure_urls(arg.inner[i].entries[k]))
                       \subseteq Range(ret.media)
           /\ Len(ret.log) = Cardinality(bad)
           /\ \A i \in bad : \E k \in 1..Len(ret.log) :
                 ret.log[k] = Warn("inner xml fetch failed", InnerXmlView(hs[i]))

\* the first inner URL fails, the second answers and its enclosure is returned
C9_Witness ==
    /\ pc = "return" /\ ret.scanned /\ Len(arg.xml.hints) = 2
    /\ ~arg.inner[1].ok /\ arg.inner[2].ok
    /\ ret.ret = <<UrlM3u8>>

(***************************************************************************)
(* The run of main.                                                        *)
(*   pc         where main is: "main" (between feeds), "entries" (in       *)
(*              collect_group, between entries), "cands" (between the      *)
(*              candidates of an entry), "done", or "aborted" (an          *)
(*              exception left main)                                       *)
(*   gi         index in HK_FEEDS of the feed being collected              *)
(*   fp         the entries feedparser gave for that feed; ei the entry    *)
(*              being processed, ci the next candidate of that entry       *)
(*   out        collect_group's list; all_items main's list; file the      *)
(*              lines written by write_m3u                                 *)
(*   sleeps     the number of time.sleep calls of this collect_group call  *)
(*   last       what the last step of collect_group did                    *)
(*   parsed     the number of entries parsed so far (bounded by MaxEntries)*)
(***************************************************************************)
HK_FEEDS == << "HK Drama", "HK Variety & News", "HK Drama (English Subtitles)" >>

Item(g, t, u) == [group |-> g, title |-> t, url |-> u]

\* e.get("title", "Untitled")
Title(e) == IF e.title = None THEN "Untitled" ELSE e.title[1]

Step(u, s, r, items, esc) ==
    [url |-> u, skip |-> s, raised |-> r.raised, log |-> r.log,
     fetched |-> r.fetched, failed |-> r.failed, items |-> items,
     uncaught |-> esc]

NoCall == [raised |-> FALSE, log |-> <<>>, fetched |-> <<>>, failed |-> <<>>]

NoStep == Step(<<>>, "", NoCall, <<>>, FALSE)

\* lines 130-132 and 142-144: the best of the resolved URLs, if there is one
AcceptBest(group_name, title, u, r, best) ==
    IF Truthy(best)
    THEN Step(u, "", r, <<Item(group_name, title, best[1])>>, FALSE)
    ELSE Step(u, "no_best", r, <<>>, FALSE)

\* lines 126-134 without the print of line 134
EpisodeCandidateSilent(group_name, title, u, r) ==
    IF r.raised THEN Step(u, "episode_failed", r, <<>>, FALSE)
    ELSE IF r.ret = <<>> THEN Step(u, "empty", r, <<>>, FALSE)
    ELSE AcceptBest(group_name, title, u, r, choose_best_media(r.ret))

\* lines 126-134: an episode pointer, r being the outcome of the resolver
EpisodeCandidate(group_name, title, u, r) ==
    IF r.raised
    THEN Step(u, "episode_failed",
              [r EXCEPT !.log = Append(@, Warn("failed to resolve episode", u))],
              <<>>, FALSE)
    ELSE IF r.ret = <<>> THEN Step(u, "empty", r, <<>>, FALSE)
    ELSE AcceptBest(group_name, title, u, r, choose_best_media(r.ret))

\* lines 140-146 without the try: the exception leaves collect_group
OtherCandidateUncaught(group_name, title, u, r) ==
    IF r.raised THEN Step(u, "resolve_failed", r, <<>>, TRUE)
    ELSE AcceptBest(group_name, title, u, r, choose_best_media(r.ret))

\* lines 140-146: another URL that is not media, r the outcome of the resolver
OtherCandidate(group_name, title, u, r) ==
    IF r.raised THEN Step(u, "resolve_failed", r, <<>>, FALSE)
    ELSE AcceptBest(group_name, title, u, r, choose_best_media(r.ret))

\* lines 124-146: the body of the loop over the candidates of an entry.  skip
\* names the reason when nothing is appended; uncaught says that an
\* exception leaves the body.
collect_candidate(group_name, title, u, xml, inner) ==
    IF EPISODE_URL(u)
    THEN EpisodeCandidate(group_name, title, u, resolve_episode_to_media(u, xml, inner))
    ELSE IF MEDIA_EXT(u)
         THEN Step(u, "", NoCall, <<Item(group_name, title, u)>>, FALSE)
         ELSE OtherCandidate(group_name, title, u, resolve_episode_to_media(u, xml, inner))

HeaderLine == [tag |-> "#EXTM3U"]

ExtInfLine(g, t) == [tag |-> "#EXTINF:-1", group |-> g, title |-> t]

UrlLine(u) == [tag |-> "url", url |-> u]

\* lines 154-161 without the seen set
write_m3u_all(items) ==
    LET F[i \in 0..Len(items)] ==
          IF i = 0 THEN <<HeaderLine>>
          ELSE F[i - 1] \o << ExtInfLine(items[i].group, items[i].title),
                              UrlLine(items[i].url) >>
    IN  F[Len(items)]

\* lines 154-161
write_m3u(items) ==
    LET F[i \in 0..Len(items)] ==
          IF i = 0 THEN <<HeaderLine>>
          ELSE IF \E k \in 1..(i - 1) : items[k].url = items[i].url
               THEN F[i - 1]
               ELSE F[i - 1] \o << ExtInfLine(items[i].group, items[i].title),
                                   UrlLine(items[i].url) >>
    IN  F[Len(items)]

\* what the feeds and the network answer in a run
RunEntries ==
    { Entry(Some("T"), <<Enclosure(UrlTs)>>, <<>>, None),
      Entry(None, <<Enclosure(UrlEpisode), Enclosure(UrlTs)>>, <<>>, None),
      Entry(Some("T"), <<Enclosure(UrlPage), Enclosure(UrlEpisode)>>, <<>>, None),
      Entry(Some("T"), <<[href |-> None]>>, <<>>, None) }

RunXmlAnswers ==
    { FetchFailed,
      Fetched(<<>>, <<>>),
      Fetched(<<EntEncM3u8>>, <<>>),
      Fetched(<<EntLinkOnly>>, <<>>),
      Fetched(<<EntNone>>, <<HintPrefix \o <<"i">> >>) }

Init ==
    /\ pc = "main" /\ gi = 1
    /\ fp = <<>> /\ ei = 0 /\ ci = 0
    /\ out = <<>> /\ all_items = <<>> /\ file = <<>>
    /\ sleeps = 0 /\ last = NoStep /\ parsed = 0
    /\ arg = <<>> /\ ret = <<>>

urls == IF ei \in 1..Len(fp) THEN extract_enclosure_urls(fp[ei]) ELSE <<>>

\* lines 167-169 and 116-117: main calls collect_group, which parses the feed
CollectGroup ==
    /\ pc = "main" /\ gi <= Len(HK_FEEDS)
    /\ \E f \in SeqsUpTo(RunEntries, MaxEntries - parsed) :
          fp' = f /\ parsed' = parsed + Len(f)
    /\ ei' = 0 /\ ci' = 0 /\ out' = <<>> /\ sleeps' = 0 /\ last' = NoStep
    /\ pc' = "entries"
    /\ UNCHANGED <<arg, ret, gi, all_items, file>>

\* lines 118-147 without the continue of line 122: the delay follows every entry
NextEntrySleepsAlways ==
    /\ pc = "entries" /\ ei < Len(fp)
    /\ ei' = ei + 1
    /\ IF extract_enclosure_urls(fp[ei + 1]) = <<>>
       THEN pc' = "entries" /\ ci' = 0 /\ sleeps' = sleeps + 1
            /\ last' = Step(<<>>, "no_candidates", NoCall, <<>>, FALSE)
       ELSE pc' = "cands" /\ ci' = 1 /\ last' = NoStep /\ sleeps' = sleeps
    /\ UNCHANGED <<arg, ret, gi, fp, out, all_items, file, parsed>>

\* lines 118-122: the next entry; one without candidates is passed over
NextEntry ==
    /\ pc = "entries" /\ ei < Len(fp)
    /\ ei' = ei + 1
    /\ IF extract_enclosure_urls(fp[ei + 1]) = <<>>
       THEN pc' = "entries" /\ ci' = 0
            /\ last' = Step(<<>>, "no_candidates", NoCall, <<>>, FALSE)
       ELSE pc' = "cands" /\ ci' = 1 /\ last' = NoStep
    /\ UNCHANGED <<arg, ret, gi, fp, out, all_items, file, sleeps, parsed>>

\* lines 123-146: one candidate of the entry
HandleCandidate ==
    /\ pc = "cands" /\ ci <= Len(urls)
    /\ \E xml \in RunXmlAnswers : \E inner \in [1..Len(xml.hints) -> InnerAnswers] :
          last' = collect_candidate(HK_FEEDS[gi], Title(fp[ei]), urls[ci], xml, inner)
    /\ out' = out \o last'.items
    /\ ci' = ci + 1
    /\ pc' = IF last'.uncaught THEN "aborted" ELSE "cands"
    /\ UNCHANGED <<arg, ret, gi, fp, ei, all_items, file, sleeps, parsed>>

\* line 147: the polite delay
Sleep ==
    /\ pc = "cands" /\ ci > Len(urls)
    /\ sleeps' = sleeps + 1
    /\ pc' = "entries"
    /\ UNCHANGED <<arg, ret, gi, fp, ei, ci, out, all_items, file, last, parsed>>

\* lines 148 and 169: collect_group returns and main extends its list
Return ==
    /\ pc = "entries" /\ ei = Len(fp)
    /\ all_items' = all_items \o out
    /\ gi' = gi + 1
    /\ pc' = "main"
    /\ UNCHANGED <<arg, ret, fp, ei, ci, out, file, sleeps, last, parsed>>

\* lines 170-171
WriteM3u ==
    /\ pc = "main" /\ gi > Len(HK_FEEDS)
    /\ file' = write_m3u(all_items)
    /\ pc' = "done"
    /\ UNCHANGED <<arg, ret, gi, fp, ei, ci, out, all_items, sleeps, last, parsed>>

Next == CollectGroup \/ NextEntry \/ HandleCandidate \/ Sleep \/ Return \/ WriteM3u

Spec == Init /\ [][Next]_vars

(***************************************************************************)
(* Properties of the run.                                                  *)
(***************************************************************************)
FeedIndex(g) == CHOOSE i \in 1..Len(HK_FEEDS) : HK_FEEDS[i] = g

ItemUrls == {all_items[i].url : i \in 1..Len(all_items)}

\* the first item of all_items with the URL u
FirstWith(u) ==
    CHOOSE i \in 1..Len(all_items) :
       all_items[i].url = u /\ \A k \in 1..(i - 1) : all_items[k].url # u

\* C1: the file is the header and one two-line record per distinct URL, in
\* the order of the URLs' first occurrences, each with the group and title of
\* the first item with that URL; main's list is in feed order, so that a URL
\* of two feeds is attributed to the feed processed first.
C1_FirstOccurrenceWins ==
    pc = "done" =>
       /\ file[1] = HeaderLine
       /\ Len(file) = 1 + 2 * Cardinality(ItemUrls)
       /\ \A u \in ItemUrls :
             LET k == 1 + Cardinality({v \in ItemUrls : FirstWith(v) < FirstWith(u)})
                 first == all_items[FirstWith(u)]
             IN  /\ file[2 * k] = ExtInfLine(first.group, first.title)
                 /\ file[2 * k + 1] = UrlLine(u)
                 /\ \A i \in 1..Len(all_items) :
                       all_items[i].url = u =>
                          FeedIndex(first.group) <= FeedIndex(all_items[i].group)
       /\ \A i, j \in 1..Len(all_items) :
             i < j => FeedIndex(all_items[i].group) <= FeedIndex(all_items[j].group)

\* one URL from two feeds under two titles, written once
C1_Witness ==
    /\ pc = "done"
    /\ \E i, j \in 1..Len(all_items) :
          /\ i < j /\ all_items[i].url = all_items[j].url
          /\ all_items[i].group # all_items[j].group
          /\ all_items[i].title # all_items[j].title
    /\ Len(file) < 1 + 2 * Len(all_items)

IsPrefix(s, t) == Len(s) <= Len(t) /\ \A i \in 1..Len(s) : s[i] = t[i]

\* C6: a failure while resolving a candidate never leaves collect_group: the
\* run is never aborted, the step that failed keeps the items collected so
\* far and goes on to the next candidate of the same entry, the lists only
\* grow, and main is always at a place from which it goes on (or is done).
C6_FailuresContained ==
    /\ [](pc # "aborted")
    /\ [](pc \in {"main", "entries", "cands", "done"} /\ ei <= Len(fp))
    /\ [][pc = "cands" /\ ci' = ci + 1 /\ last'.raised =>
             /\ pc' = "cands" /\ out' = out /\ all_items' = all_items
             /\ fp' = fp /\ ei' = ei]_vars
    /\ [][pc # "main" => IsPrefix(out, out')]_vars
    /\ [][IsPrefix(all_items, all_items')]_vars

\* a candidate that is no episode pointer has just failed, after an item
\* was accepted, and a candidate of the same entry is still to come
C6_Witness ==
    /\ pc = "cands" /\ last.raised /\ last.skip = "resolve_failed"
    /\ out # <<>> /\ ci <= Len(urls)

\* C7 as claimed: every skip emits a log line that contains the offending URL
C7_EverySkipLogged ==
    last.skip # "" => \E k \in 1..Len(last.log) : last.log[k].url = last.url

\* C7 as the code has it: a line with the URL is printed when an episode
\* pointer fails to resolve and when an inner URL fails; an entry without
\* candidates and a failed candidate that is no episode pointer print
\* nothing, an empty or unusable result prints nothing of its own.
InnerWarnings ==
    [k \in 1..Len(last.failed) |-> Warn("inner xml fetch failed", last.failed[k])]

C7_LoggedSkips ==
    /\ last.skip = "episode_failed" =>
          last.log = <<Warn("failed to resolve episode", last.url)>>
    /\ last.skip \in {"no_candidates", "resolve_failed"} => last.log = <<>>
    /\ last.skip \in {"empty", "no_best", ""} => last.log = InnerWarnings

C7_Witness ==
    /\ last.skip = "episode_failed" /\ last.url = UrlEpisode
    /\ last.log # <<>> /\ last.fetched = <<ensure_xml_view(UrlEpisode)>>

\* the number of the first k entries of the feed that have a candidate
Eligible(k) ==
    Cardinality({i \in 1..k : extract_enclosure_urls(fp[i]) # <<>>})

\* the number of candidates of the first k entries of the feed
Candidates(k) ==
    LET F[i \in 0..k] ==
          IF i = 0 THEN 0 ELSE F[i - 1] + Len(extract_enclosure_urls(fp[i]))
    IN  F[k]

\* C10: collect_group sleeps once per entry that has a candidate, after the
\* last candidate of the entry and before anything is done for the next
\* entry; an entry without candidates gives no delay and no item.
C10_PoliteDelay ==
    /\ pc = "cands" =>
          /\ sleeps + 1 = Eligible(ei)
          /\ Len(out) <= Candidates(ei - 1) + (ci - 1)
    /\ pc = "entries" =>
          /\ sleeps = Eligible(ei)
          /\ Len(out) <= Candidates(ei)

\* an entry with two candidates, then an entry without: one delay
C10_Witness ==
    /\ pc = "entries" /\ ei = 2 /\ sleeps = 1
    /\ Len(extract_enclosure_urls(fp[1])) = 2
    /\ last.skip = "no_candidates"

====
